---- MODULE Spec2Model ----
(***************************************************************************)
(* Santorini rules engine (santorini/SantoriniLogicNumba.py, class Board): *)
(* board state, legal-move generation, move application, terminal-state    *)
(* detection and the symmetry engine, as a state machine.                  *)
(***************************************************************************)
EXTENDS Integers, Sequences, FiniteSets, TLC

VARIABLES
    INIT_METHOD,   \* module constant INIT_METHOD (1 in this build)
    workers,       \* Board.workers  = state[:, :, 0]
    levels,        \* Board.levels   = state[:, :, 1]
    gods_power,    \* Board.gods_power = state[:, :, 2]
    _move_count,   \* Board._move_count
    player,        \* the caller's player to move (value returned by make_move)
    start,         \* the operation the board got its first state from
    op,            \* name of the last operation applied to the board
    move,          \* action id given to the last make_move (nb_swaps given to the
                   \* last swap_players)
    mover,         \* player given to the last make_move
    err,           \* exception raised by the last operation ("none" if it returned)
    calls,         \* number of make_move calls that returned
    policy,        \* policy vector given to the last operation, if it was get_symmetries
    valid_actions, \* mask given to the last operation, if it was get_symmetries
    symmetries,    \* list returned by the last get_symmetries the caller still holds
    given,         \* the array given to copy_state, as it reads now (<< >>: none)
    copy_or_not,   \* flag given to the last copy_state: 1 True, 0 False, -1 no call yet
    board,         \* proxy.py: the session's board (<< >>: no session)
    session_valids, \* proxy.py: valids, the actions legal on the session's board
    tasks,         \* proxy.py: the coroutines of the session, each with its position
    history,       \* proxy.py: the moves played, newest first: player, board, action
    future_history, \* proxy.py: the moves undone, the next to replay first
    mcts           \* proxy.py: mcts.args.numMCTSSims, with the count that was
                   \* configured and, for each coroutine, its prev_sims and the
                   \* count its search was called with

vars == <<INIT_METHOD, workers, levels, gods_power, _move_count, player,
          start, op, move, mover, err, calls, policy, valid_actions, symmetries,
          given, copy_or_not, board, session_valids,
          tasks, history, future_history, mcts>>

\* the state of the web session
session == <<board, session_valids, tasks, history, future_history, mcts>>

-----------------------------------------------------------------------------
(* Bounds of the model *)

\* longest sequence of make_move calls explored in legal play from a position of a
\* game in progress
MaxMoves == 2

\* longest sequence of make_move calls explored in legal play from a fresh board
MaxOpening == 1

\* longest sequence of unchecked make_move calls explored
MaxUnchecked == 1

\* longest sequence of make_move calls explored when the round counter is followed
MaxRound == 130

\* longest sequence of make_move calls explored before get_symmetries is called
MaxSymMoves == 1

\* longest sequence of make_move calls explored around copy_state and swap_players
MaxCopyMoves == 1

\* longest sequence of make_move calls explored after the four placements
MaxPlaceMoves == 1

\* highest ability id of the decoded actions given to make_move
MaxAbility == 1

-----------------------------------------------------------------------------
(* SantoriniConstants (imported by the engine, lines 2-12) *)

NB_GODS == 1
NO_GOD == 0
NO_MOVE == 4
NO_BUILD == 4

_encode_action(worker, power, move_direction, build_direction) ==
    NB_GODS * 81 * worker + 81 * power + 9 * move_direction + build_direction

_decode_action(action) ==
    [worker          |-> action \div (NB_GODS * 81),
     power           |-> (action % (NB_GODS * 81)) \div 81,
     move_direction  |-> (action % 81) \div 9,
     build_direction |-> action % 9]

-----------------------------------------------------------------------------
(* Grid, numpy indexing and int8 arithmetic *)

\* side of the board: np.zeros((5, 5, 3), dtype=np.int8)
N == 5

Cells == (0 .. N - 1) \X (0 .. N - 1)

\* row-major flat index of a plane, as used by ndarray.flat and np.ndindex
Flat(k) == <<k \div N, k % N>>
FlatIndex(c) == N * c[1] + c[2]

\* numpy accepts an index i with -N <= i < N (a negative one counts from the end)
\* and raises IndexError otherwise
IndexOk(position) == position[1] \in -N .. N - 1 /\ position[2] \in -N .. N - 1
Index(position) == <<position[1] % N, position[2] % N>>

\* int8 wrap-around of an in-place numpy addition
Int8(x) == ((x + 128) % 256) - 128

Abs(x) == IF x < 0 THEN -x ELSE x

RECURSIVE SumAbsUpTo(_, _)
SumAbsUpTo(w, k) == IF k < 0 THEN 0 ELSE Abs(w[Flat(k)]) + SumAbsUpTo(w, k - 1)

\* np.abs(self.workers).sum()
AbsSum(w) == SumAbsUpTo(w, N * N - 1)

action_size == NB_GODS * 2 * 9 * 9

Actions == 0 .. action_size - 1

\* a numpy array of action_size entries with the values of f, held entry by entry
\* (an array is built once and then indexed, it is not recomputed at each use)
Array(f) == [f EXCEPT ![0] = f[0]]

deltas == << <<-1, -1>>, <<-1, 0>>, <<-1, 1>>,
             << 0, -1>>, << 0, 0>>, << 0, 1>>,
             << 1, -1>>, << 1, 0>>, << 1, 1>> >>

_apply_direction(position, direction) ==
    <<position[1] + deltas[direction + 1][1], position[2] + deltas[direction + 1][2]>>

-----------------------------------------------------------------------------
(* Board queries *)

_get_worker_position(w, searched_worker) ==
    LET found == {k \in 0 .. N * N - 1 : w[Flat(k)] = searched_worker}
    IN  IF found = {} THEN <<-1, -1>>
        ELSE Flat(CHOOSE k \in found : \A j \in found : k <= j)

\* _able_to_move_worker_to without the limit of one level up
_able_to_move_worker_to_any_climb(w, l, old_position, new_position, p) ==
    IF ~(new_position[1] \in 0 .. 4 /\ new_position[2] \in 0 .. 4) THEN FALSE
    ELSE IF w[new_position] # 0
            /\ ((p = 0 /\ w[new_position] > 0) \/ (p = 1 /\ w[new_position] < 0))
         THEN FALSE
    ELSE IF l[new_position] > 3 THEN FALSE
    ELSE TRUE

_able_to_move_worker_to(w, l, old_position, new_position, p) ==
    IF ~(new_position[1] \in 0 .. 4 /\ new_position[2] \in 0 .. 4) THEN FALSE
    ELSE IF w[new_position] # 0
            /\ ((p = 0 /\ w[new_position] > 0) \/ (p = 1 /\ w[new_position] < 0))
         THEN FALSE
    ELSE IF l[new_position] > 3 THEN FALSE
    ELSE IF l[new_position] > l[old_position] + 1 THEN FALSE
    ELSE TRUE

\* _able_to_build that does not look at who is on the cell
_able_to_build_any_worker(w, l, position, ignore) ==
    IF ~(position[1] \in 0 .. 4 /\ position[2] \in 0 .. 4) THEN FALSE
    ELSE IF l[position] >= 4 THEN FALSE
    ELSE TRUE

\* _able_to_build that forgets the cell the moving worker leaves
_able_to_build_no_ignore(w, l, position, ignore) ==
    IF ~(position[1] \in 0 .. 4 /\ position[2] \in 0 .. 4) THEN FALSE
    ELSE IF w[position] # 0 THEN FALSE
    ELSE IF l[position] >= 4 THEN FALSE
    ELSE TRUE

\* _able_to_build that tests the cap with > instead of >=
_able_to_build_off_by_one(w, l, position, ignore) ==
    IF ~(position[1] \in 0 .. 4 /\ position[2] \in 0 .. 4) THEN FALSE
    ELSE IF w[position] \notin {0, ignore} THEN FALSE
    ELSE IF l[position] > 4 THEN FALSE
    ELSE TRUE

_able_to_build(w, l, position, ignore) ==
    IF ~(position[1] \in 0 .. 4 /\ position[2] \in 0 .. 4) THEN FALSE
    ELSE IF w[position] \notin {0, ignore} THEN FALSE
    ELSE IF l[position] >= 4 THEN FALSE
    ELSE TRUE

\* worker_ids that lists the workers of player 1 in the other order
worker_ids_reversed(p) == IF p = 0 THEN <<1, 2>> ELSE <<-2, -1>>

worker_ids(p) == IF p = 0 THEN <<1, 2>> ELSE <<-1, -2>>

\* lines 114-120: the build directions accepted after a move to worker_new_position
LegalBuilds(w, l, worker_new_position, worker_id) ==
    {build_direction \in 0 .. 8 :
        /\ build_direction # NO_BUILD
        /\ _able_to_build(w, l, _apply_direction(worker_new_position, build_direction), worker_id)}

\* lines 107-112: the move directions accepted for the worker at worker_position
LegalMoves(w, l, worker_position, p) ==
    {move_direction \in 0 .. 8 :
        /\ move_direction # NO_MOVE
        /\ _able_to_move_worker_to(w, l, worker_position,
                                   _apply_direction(worker_position, move_direction), p)}

\* lines 102-120: the (worker_index, move_direction, build_direction) triples that
\* survive the three nested loops for one worker
WorkerTriples(w, l, p, worker_index) ==
    LET worker_id == worker_ids(p)[worker_index + 1]
    IN  UNION {IF worker_position = <<-1, -1>> THEN {}
               ELSE UNION {{<<worker_index, move_direction, build_direction>> :
                               build_direction \in
                                   LegalBuilds(w, l,
                                               _apply_direction(worker_position, move_direction),
                                               worker_id)} :
                           move_direction \in LegalMoves(w, l, worker_position, p)} :
               worker_position \in {_get_worker_position(w, worker_id)}}

LegalTriples(w, l, p) == WorkerTriples(w, l, p, 0) \cup WorkerTriples(w, l, p, 1)

\* np.zeros(action_size(), dtype=np.bool_): a mask with no bit set (its sum is 0)
NoAction == Array([a \in Actions |-> FALSE])

valid_moves(im, w, l, p) ==
    IF im = 2 /\ AbsSum(w) # 6
    THEN Array([a \in Actions |-> a < N * N /\ w[Flat(a)] = 0])
    ELSE LET set == {_encode_action(t[1], NO_GOD, t[2], t[3]) : t \in LegalTriples(w, l, p)}
         IN  Array([a \in Actions |-> a \in set])

get_score(w, l, p) ==
    LET mine == {c \in Cells : IF p = 0 THEN w[c] > 0 ELSE w[c] < 0}
        tops == {l[c] : c \in {d \in mine : l[d] > 0}}
    IN  IF tops = {} THEN 0 ELSE CHOOSE h \in tops : \A k \in tops : k <= h

\* check_end_game that looks at player 1's workers before player 0's
check_end_game_player1_first(im, w, l, next_player) ==
    IF im = 2 /\ AbsSum(w) # 6 THEN <<0, 0>>
    ELSE IF get_score(w, l, 1) = 3 THEN <<-1, 1>>
    ELSE IF get_score(w, l, 0) = 3 THEN <<1, -1>>
    ELSE IF valid_moves(im, w, l, next_player) = NoAction
         THEN (IF next_player = 0 THEN <<-1, 1>> ELSE <<1, -1>>)
    ELSE <<0, 0>>

\* check_end_game that gives the win to the player who cannot move
check_end_game_loss_swapped(im, w, l, next_player) ==
    IF im = 2 /\ AbsSum(w) # 6 THEN <<0, 0>>
    ELSE IF get_score(w, l, 0) = 3 THEN <<1, -1>>
    ELSE IF get_score(w, l, 1) = 3 THEN <<-1, 1>>
    ELSE IF valid_moves(im, w, l, next_player) = NoAction
         THEN (IF next_player = 1 THEN <<-1, 1>> ELSE <<1, -1>>)
    ELSE <<0, 0>>

check_end_game(im, w, l, next_player) ==
    IF im = 2 /\ AbsSum(w) # 6 THEN <<0, 0>>
    ELSE IF get_score(w, l, 0) = 3 THEN <<1, -1>>
    ELSE IF get_score(w, l, 1) = 3 THEN <<-1, 1>>
    ELSE IF valid_moves(im, w, l, next_player) = NoAction
         THEN (IF next_player = 0 THEN <<-1, 1>> ELSE <<1, -1>>)
    ELSE <<0, 0>>

get_round(gp) == gp[Flat(2 * NB_GODS)]

-----------------------------------------------------------------------------
(* Board updates *)

\* _store_move_count that writes the slot of player 1's power instead of the round slot
_store_move_count_wrong_slot(gp, mc) ==
    [gp EXCEPT ![Flat(NB_GODS)] = IF mc < 127 THEN mc ELSE 127]

_store_move_count(gp, mc) ==
    [gp EXCEPT ![Flat(2 * NB_GODS)] = IF mc < 127 THEN mc ELSE 127]

_set_default_power(gp, p) == [gp EXCEPT ![Flat(p * NB_GODS + NO_GOD)] = 64]

\* init_game with INIT_METHOD = 1: init_places is the draw of
\* np.random.choice(25, 4, replace=False) (with INIT_METHOD = 2 it is unused)
init_game(im, init_places) ==
    LET zero == [c \in Cells |-> 0]
        workers_list == <<1, -1, 2, -2>>
        placed == IF im = 0
                  THEN [zero EXCEPT ![<<2, 1>>] = 1, ![<<2, 3>>] = 2,
                                    ![<<1, 2>>] = -1, ![<<3, 2>>] = -2]
                  ELSE IF im = 1
                  THEN [c \in Cells |->
                          IF \E i \in 1 .. 4 : Flat(init_places[i]) = c
                          THEN workers_list[CHOOSE i \in 1 .. 4 : Flat(init_places[i]) = c]
                          ELSE 0]
                  ELSE zero
    IN  [workers     |-> placed,
         levels      |-> zero,
         gods_power  |-> _set_default_power(_set_default_power(_store_move_count(zero, 0), 0), 1),
         _move_count |-> 0]

\* copy_state(state, True): the board takes a copy of the given array
copy_state(state) ==
    [workers     |-> state.workers,
     levels      |-> state.levels,
     gods_power  |-> state.gods_power,
     _move_count |-> state.gods_power[Flat(2 * NB_GODS)]]

\* lines 151-153: the counter, its copy in the state, the return value
MoveDone(w, l, gp, mc, p) ==
    LET count == IF mc + 1 < 127 THEN mc + 1 ELSE 127
    IN  [workers |-> w, levels |-> l, gods_power |-> _store_move_count(gp, count),
         _move_count |-> count, ret |-> 1 - p, err |-> "none"]

\* an exception leaves the board as the statements before it made it
MoveRaised(w, l, gp, mc, e) ==
    [workers |-> w, levels |-> l, gods_power |-> gp, _move_count |-> mc,
     ret |-> -1, err |-> e]

\* a move that leaves the worker id on the cell it came from
ClearOrigin_skipped(w, worker_old_position) == w

\* line 144: self.workers[worker_old_position] = 0
ClearOrigin(w, worker_old_position) == [w EXCEPT ![Index(worker_old_position)] = 0]

\* line 145: self.workers[worker_new_position] = worker_id
PlaceWorker(w, worker_new_position, worker_id) ==
    [w EXCEPT ![Index(worker_new_position)] = worker_id]

\* line 149: self.levels[build_position] += 1
Build_nothing(l, build_position) == l

Build(l, build_position) ==
    [l EXCEPT ![Index(build_position)] = Int8(l[Index(build_position)] + 1)]

\* the ability is tested once the worker has been moved
MoveDecoded_late_check(w, l, gp, mc, d, p) ==
    LET worker_id == (d.worker + 1) * (IF p = 0 THEN 1 ELSE -1)
        worker_old_position == _get_worker_position(w, worker_id)
        worker_new_position == _apply_direction(worker_old_position, d.move_direction)
        w1 == ClearOrigin(w, worker_old_position)
        w2 == PlaceWorker(w1, worker_new_position, worker_id)
        build_position == _apply_direction(worker_new_position, d.build_direction)
    IN  IF ~IndexOk(worker_new_position) THEN MoveRaised(w1, l, gp, mc, "IndexError")
        ELSE IF d.power # NO_GOD THEN MoveRaised(w2, l, gp, mc, "ValueError")
        ELSE IF d.build_direction = NO_BUILD THEN MoveDone(w2, l, gp, mc, p)
        ELSE IF ~IndexOk(build_position) THEN MoveRaised(w2, l, gp, mc, "IndexError")
        ELSE MoveDone(w2, Build(l, build_position), gp, mc, p)

\* lines 137-149: make_move once the action is decoded to d
MoveDecoded(w, l, gp, mc, d, p) ==
    LET worker_id == (d.worker + 1) * (IF p = 0 THEN 1 ELSE -1)
        worker_old_position == _get_worker_position(w, worker_id)
        worker_new_position == _apply_direction(worker_old_position, d.move_direction)
        w1 == ClearOrigin(w, worker_old_position)
        w2 == PlaceWorker(w1, worker_new_position, worker_id)
        build_position == _apply_direction(worker_new_position, d.build_direction)
    IN  IF d.power # NO_GOD THEN MoveRaised(w, l, gp, mc, "ValueError")
        ELSE IF ~IndexOk(worker_new_position) THEN MoveRaised(w1, l, gp, mc, "IndexError")
        ELSE IF d.build_direction = NO_BUILD THEN MoveDone(w2, l, gp, mc, p)
        ELSE IF ~IndexOk(build_position) THEN MoveRaised(w2, l, gp, mc, "IndexError")
        ELSE MoveDone(w2, Build(l, build_position), gp, mc, p)

\* a placement puts a worker of player 0 whoever places
make_move_player0_only(im, w, l, gp, mc, a, p) ==
    IF im = 2 /\ AbsSum(w) # 6
    THEN LET sum_workers == AbsSum(w)
             worker_to_place == IF sum_workers \in {0, 1} THEN 1 ELSE 2
             cell == <<a \div 5, a % 5>>
         IN  IF sum_workers \notin {0, 1, 2, 4} THEN MoveRaised(w, l, gp, mc, "ValueError")
             ELSE IF ~IndexOk(cell) THEN MoveRaised(w, l, gp, mc, "IndexError")
             ELSE MoveDone([w EXCEPT ![Index(cell)] = worker_to_place], l, gp, mc, p)
    ELSE MoveDecoded(w, l, gp, mc, _decode_action(a), p)

make_move(im, w, l, gp, mc, a, p) ==
    IF im = 2 /\ AbsSum(w) # 6
    THEN LET sum_workers == AbsSum(w)
             worker_to_place == IF sum_workers \in {0, 1}
                                THEN (IF p = 0 THEN 1 ELSE -1)
                                ELSE (IF p = 0 THEN 2 ELSE -2)
             cell == <<a \div 5, a % 5>>
         IN  IF sum_workers \notin {0, 1, 2, 4} THEN MoveRaised(w, l, gp, mc, "ValueError")
             ELSE IF ~IndexOk(cell) THEN MoveRaised(w, l, gp, mc, "IndexError")
             ELSE MoveDone([w EXCEPT ![Index(cell)] = worker_to_place], l, gp, mc, p)
    ELSE MoveDecoded(w, l, gp, mc, _decode_action(a), p)

\* the sign flip done for any number of swaps but 0
swap_players_any_count(w, nb_swaps) ==
    IF nb_swaps = 0 THEN w ELSE [c \in Cells |-> Int8(-w[c])]

\* lines 171-174: the workers plane after swap_players(nb_swaps)
swap_players(w, nb_swaps) ==
    IF nb_swaps # 1 THEN w ELSE [c \in Cells |-> Int8(-w[c])]

\* the board shares the given array whatever the flag
SharesGiven_always(flag) == flag # -1

\* line 226, self.state = state.copy() if copy_or_not else state: after
\* copy_state(state, False) self.state is the given array itself, and what is
\* written to the board is written to that array
SharesGiven(flag) == flag = 0

-----------------------------------------------------------------------------
(* Symmetry engine *)

\* SantoriniConstants: the action permutation of a grid transform sends each
\* action to the action with its move and build directions transformed
_generate_permutation(permutation) ==
    Array([i \in Actions |->
              LET d == _decode_action(i)
              IN  _encode_action(d.worker, d.power, permutation[d.move_direction + 1],
                                 permutation[d.build_direction + 1])])

\* direction (dy, dx) becomes (-dx, dy) under np.rot90, (dy, -dx) under np.fliplr
\* and (-dy, dx) under np.flipud
rotation == _generate_permutation(<<6, 3, 0, 7, 4, 1, 8, 5, 2>>)
flipLR == _generate_permutation(<<2, 1, 0, 5, 4, 3, 8, 7, 6>>)
flipUD == _generate_permutation(<<6, 7, 8, 3, 4, 5, 0, 1, 2>>)

\* a quarter turn the other way round (np.rot90 with k = -1)
rot90_clockwise(m) == [c \in Cells |-> m[<<N - 1 - c[2], c[1]>>]]

\* np.rot90, np.fliplr, np.flipud of a 5x5 plane
rot90(m) == [c \in Cells |-> m[<<c[2], N - 1 - c[1]>>]]
fliplr(m) == [c \in Cells |-> m[<<c[1], N - 1 - c[2]>>]]
flipud(m) == [c \in Cells |-> m[<<N - 1 - c[1], c[2]>>]]

\* lines 273-274: the loop writes array[i] to slot permutation[i] of the copy, for
\* i = 0, 1, ...: a slot keeps the last value written to it, or the copied one.
\* LastWriter gives, per slot, the index it is last written from (-1: never)
LastWriter(permutation) ==
    Array([j \in Actions |->
              LET from == {i \in Actions : permutation[i] = j}
              IN  IF from = {} THEN -1 ELSE CHOOSE i \in from : \A k \in from : k <= i])

\* the three permutations the engine uses, each with its LastWriter
Writers ==
    rotation :> LastWriter(rotation) @@ flipLR :> LastWriter(flipLR)
        @@ flipUD :> LastWriter(flipUD)

Permuted(writer, array) ==
    Array([j \in Actions |-> IF writer[j] = -1 THEN array[j] ELSE array[writer[j]]])

_apply_permutation(permutation, array, array2) ==
    <<Permuted(Writers[permutation], array), Permuted(Writers[permutation], array2)>>

\* one element of the list: (self.state.copy(), policy, valid_actions)
Triple(w, l, gp, pol, va) ==
    <<[workers |-> w, levels |-> l, gods_power |-> gp], pol, va>>

\* lines 181-185: n more quarter turns, each applied to the board and to the
\* vectors as the previous turn left them
RECURSIVE Rotations(_, _, _, _, _, _)
Rotations(w, l, gp, rotated_policy, rotated_actions, n) ==
    IF n = 0 THEN << >>
    ELSE LET w1 == rot90(w)
             l1 == rot90(l)
             r == _apply_permutation(rotation, rotated_policy, rotated_actions)
         IN  <<Triple(w1, l1, gp, r[1], r[2])>> \o Rotations(w1, l1, gp, r[1], r[2], n - 1)

\* lines 201-204
_swap_workers(array, half_size) ==
    [i \in Actions |-> IF i < half_size THEN array[i + half_size] ELSE array[i - half_size]]

\* lines 206-207 and 213-214: self.workers[p1], self.workers[p2] = v1, v2
SwapWorkers(w, first, second) ==
    LET p1 == _get_worker_position(w, first)
        p2 == _get_worker_position(w, second)
    IN  [[w EXCEPT ![Index(p1)] = second] EXCEPT ![Index(p2)] = first]

\* the worker swaps emitted in the placement build only
SwapsEmitted_placement_only(im, w) == im = 2 /\ AbsSum(w) = 6

\* line 200
SwapsEmitted(im, w) == im # 2 \/ AbsSum(w) = 6

\* the list get_symmetries returns; after each variant the board is set back to
\* state_backup, so each variant starts from the board as it was at the call
get_symmetries(im, w, l, gp, pol, va) ==
    LET identity == <<Triple(w, l, gp, pol, va)>>
        rotations == Rotations(w, l, gp, pol, va, 3)
        lr == _apply_permutation(flipLR, pol, va)
        ud == _apply_permutation(flipUD, pol, va)
        flips == <<Triple(fliplr(w), fliplr(l), gp, lr[1], lr[2]),
                   Triple(flipud(w), flipud(l), gp, ud[1], ud[2])>>
        swaps == IF SwapsEmitted(im, w)
                 THEN <<Triple(SwapWorkers(w, 1, 2), l, gp,
                               _swap_workers(pol, action_size \div 2),
                               _swap_workers(va, action_size \div 2)),
                        Triple(SwapWorkers(w, -1, -2), l, gp, pol, va)>>
                 ELSE << >>
    IN  identity \o rotations \o flips \o swaps

\* the first triple holds self.state itself
AliasedStates_first == {1}

\* the triples of the list whose state is self.state itself instead of a copy:
\* none, every append takes self.state.copy()
AliasedStates == {}

\* the list as the caller reads it once the board's state array holds w, l, gp
Restore_skipped(state, state_backup) == state

\* self.state[:, :, :] = state_backup.copy()
Restore(state, state_backup) == state_backup

\* the board as get_symmetries leaves it: it is written in place for each group
\* of variants and written back from state_backup after each
StateAfterSymmetries(im, w, l, gp) ==
    LET state_backup == [workers |-> w, levels |-> l, gods_power |-> gp]
        rotated == [state_backup EXCEPT !.workers = rot90(rot90(rot90(w))),
                                        !.levels = rot90(rot90(rot90(l)))]
        s1 == Restore(rotated, state_backup)
        s2 == Restore([s1 EXCEPT !.workers = fliplr(s1.workers),
                                 !.levels = fliplr(s1.levels)], state_backup)
        s3 == Restore([s2 EXCEPT !.workers = flipud(s2.workers),
                                 !.levels = flipud(s2.levels)], state_backup)
        s4 == Restore([s3 EXCEPT !.workers = SwapWorkers(s3.workers, 1, 2)], state_backup)
        s5 == Restore([s4 EXCEPT !.workers = SwapWorkers(s4.workers, -1, -2)], state_backup)
    IN  IF SwapsEmitted(im, w) THEN s5 ELSE s3

\* the two arrays given to _apply_permutation, as they read after it: the
\* writes go to array_copy and array2_copy
ArraysAfterPermutation(permutation, array, array2) == <<array, array2>>

\* policy and valid_actions as they read after get_symmetries: given to
\* _apply_permutation with rotation, flipLR and flipUD, and read by _swap_workers
ArraysAfterSymmetries(pol, va) ==
    LET a1 == ArraysAfterPermutation(rotation, pol, va)
        a2 == ArraysAfterPermutation(flipLR, a1[1], a1[2])
    IN  ArraysAfterPermutation(flipUD, a2[1], a2[2])

Seen(list, w, l, gp) ==
    [i \in 1 .. Len(list) |->
        IF i \in AliasedStates
        THEN <<[workers |-> w, levels |-> l, gods_power |-> gp], list[i][2], list[i][3]>>
        ELSE list[i]]

-----------------------------------------------------------------------------
(* Boards the engine is started from *)

\* a plane that is 0 except on the cells of `cells`, given as <<cell, value>> pairs
Plane(cells) ==
    [c \in Cells |-> IF \E e \in cells : e[1] = c
                     THEN (CHOOSE e \in cells : e[1] = c)[2] ELSE 0]

RECURSIVE SumUpTo(_, _)
SumUpTo(l, k) == IF k < 0 THEN 0 ELSE l[Flat(k)] + SumUpTo(l, k - 1)

\* a position of a game in progress, as handed to copy_state: the round slot
\* holds the number of plies played, one per built level
Position(ws, ls) ==
    LET l == Plane(ls)
        fresh == init_game(1, <<0, 1, 2, 3>>)
    IN  [workers    |-> Plane(ws),
         levels     |-> l,
         gods_power |-> _store_move_count(fresh.gods_power, SumUpTo(l, N * N - 1))]

\* draws of np.random.choice(25, 4, replace=False) for the workers 1, -1, 2, -2
InitPlacements == {<<0, 24, 4, 20>>, <<0, 1, 20, 24>>, <<0, 1, 20, 21>>}

\* late in a game: each player has a worker on height 2 beside a tower of height 3;
\* worker 1 can only step onto its tower and can only build on the cell it left,
\* worker 2 cannot move, and worker -2 can cap the tower at (0, 3)
Climb ==
    Position({<< <<0, 0>>, 1>>, << <<4, 0>>, 2>>, << <<4, 4>>, -1>>, << <<0, 4>>, -2>>},
             {<< <<0, 0>>, 2>>, << <<0, 1>>, 3>>, << <<1, 0>>, 4>>, << <<1, 1>>, 4>>,
              << <<0, 2>>, 4>>, << <<1, 2>>, 4>>,
              << <<3, 0>>, 2>>, << <<3, 1>>, 2>>, << <<4, 1>>, 2>>,
              << <<4, 4>>, 2>>, << <<4, 3>>, 3>>, << <<3, 4>>, 4>>, << <<3, 3>>, 4>>,
              << <<0, 3>>, 3>>})

\* player 1 is one build (on (1, 1)) away from having no move; worker 2 cannot move
Trap ==
    Position({<< <<0, 0>>, -1>>, << <<0, 4>>, -2>>, << <<2, 0>>, 1>>, << <<4, 4>>, 2>>},
             {<< <<0, 1>>, 2>>, << <<1, 0>>, 2>>, << <<1, 1>>, 1>>,
              << <<0, 3>>, 2>>, << <<1, 3>>, 2>>, << <<1, 4>>, 2>>,
              << <<3, 3>>, 4>>, << <<3, 4>>, 4>>, << <<4, 3>>, 4>>})

Positions == {Climb, Trap}

\* a late board: domes everywhere but on five cells of the top left corner and
\* under the second worker of each player, which cannot move
Endgame ==
    Position({<< <<0, 0>>, 1>>, << <<4, 4>>, 2>>, << <<0, 2>>, -1>>, << <<4, 0>>, -2>>},
             {<<c, IF c \in {<<4, 4>>, <<4, 0>>} THEN 0
                   ELSE IF c \in {<<0, 0>>, <<0, 2>>, <<1, 1>>} THEN 2
                   ELSE IF c \in {<<0, 1>>, <<1, 0>>} THEN 3
                   ELSE 4>> : c \in Cells})

-----------------------------------------------------------------------------
(* The state machine *)

Quiet(o) ==
    /\ start = o
    /\ op = o
    /\ move = -1
    /\ mover = -1
    /\ err = "none"
    /\ calls = 0
    /\ policy = << >>
    /\ valid_actions = << >>
    /\ symmetries = << >>

NoSession ==
    /\ board = << >>
    /\ session_valids = {}
    /\ tasks = << >>
    /\ history = << >>
    /\ future_history = << >>
    /\ mcts = << >>

Ghosts(o) ==
    /\ Quiet(o)
    /\ given = << >>
    /\ copy_or_not = -1
    /\ NoSession

Load(b) ==
    /\ workers = b.workers
    /\ levels = b.levels
    /\ gods_power = b.gods_power
    /\ _move_count = b._move_count

\* a freshly initialised board (player 0 begins), or a board that took a position
\* of a game in progress with copy_state (either player to move)
Init ==
    /\ INIT_METHOD = 1
    /\ \/ \E init_places \in InitPlacements :
             /\ Load(init_game(1, init_places))
             /\ player = 0
             /\ Ghosts("init_game")
       \/ \E state \in Positions :
             /\ Load(copy_state(state))
             /\ player \in {0, 1}
             /\ Ghosts("copy_state")

ApplyBoard(a, p) ==
    LET r == make_move(INIT_METHOD, workers, levels, gods_power, _move_count, a, p)
    IN  /\ workers' = r.workers
        /\ levels' = r.levels
        /\ gods_power' = r.gods_power
        /\ _move_count' = r._move_count
        /\ err' = r.err
        /\ player' = IF r.err = "none" THEN r.ret ELSE player
        /\ calls' = IF r.err = "none" THEN calls + 1 ELSE calls
        /\ op' = "make_move"
        /\ move' = a
        /\ mover' = p
        /\ UNCHANGED <<INIT_METHOD, start>>

\* make_move by a caller that holds no list of symmetries
Apply(a, p) ==
    /\ ApplyBoard(a, p)
    /\ policy' = << >>
    /\ valid_actions' = << >>
    /\ symmetries' = << >>
    /\ UNCHANGED <<given, copy_or_not, session>>

\* legal play: the caller passes an action set in valid_moves for the player to move
MakeMove ==
    /\ calls < (IF start = "init_game" THEN MaxOpening ELSE MaxMoves)
    /\ \E valids \in {valid_moves(INIT_METHOD, workers, levels, player)} :
          \E a \in {x \in Actions : valids[x]} : Apply(a, player)

\* unchecked use: the caller passes any action id, validated or not; an exception
\* ends the run
MakeMoveUnchecked ==
    /\ calls < MaxUnchecked
    /\ err = "none"
    /\ \E a \in Actions : Apply(a, player)

\* the round counter is followed over many calls: the caller passes moves that do
\* not build (worker 0 stays or steps right), validated or not
QuietActions ==
    {_encode_action(0, NO_GOD, NO_MOVE, NO_BUILD), _encode_action(0, NO_GOD, 5, NO_BUILD)}

MakeMoveQuiet ==
    /\ calls < MaxRound
    /\ err = "none"
    /\ \E a \in QuietActions : Apply(a, player)

\* legal play before the symmetries of a position are taken
MakeMoveSym ==
    /\ calls < MaxSymMoves
    /\ \E valids \in {valid_moves(INIT_METHOD, workers, levels, player)} :
          \E a \in {x \in Actions : valids[x]} : Apply(a, player)

\* get_symmetries(policy, valid_actions) on the mask of the position for player 0
\* and a policy that tells the actions apart or is uniform over the mask; the
\* board ends as state_backup, the copy taken at the call
GetSymmetries ==
    \E valids \in {valid_moves(INIT_METHOD, workers, levels, 0)} :
        \E pol \in {Array([a \in Actions |-> a]),
                     Array([a \in Actions |-> IF valids[a] THEN 1 ELSE 0])} :
            \E after \in {StateAfterSymmetries(INIT_METHOD, workers, levels, gods_power)},
               arrays \in {ArraysAfterSymmetries(pol, valids)} :
                /\ symmetries' = get_symmetries(INIT_METHOD, workers, levels, gods_power,
                                                pol, valids)
                /\ policy' = arrays[1]
                /\ valid_actions' = arrays[2]
                /\ workers' = after.workers
                /\ levels' = after.levels
                /\ gods_power' = after.gods_power
                /\ op' = "get_symmetries"
                /\ move' = -1
                /\ mover' = -1
                /\ err' = "none"
                /\ UNCHANGED <<INIT_METHOD, _move_count, player, start, calls,
                               given, copy_or_not, session>>

\* a board that took a position of a game in progress with copy_state, or a
\* freshly initialised board
InitSym ==
    /\ INIT_METHOD = 1
    /\ \/ /\ \E state \in Positions : Load(copy_state(state))
          /\ player \in {0, 1}
          /\ Ghosts("copy_state")
       \/ /\ Load(init_game(1, <<0, 1, 20, 21>>))
          /\ player = 0
          /\ Ghosts("init_game")

\* a freshly initialised board
InitFresh ==
    /\ INIT_METHOD = 1
    /\ \E init_places \in InitPlacements : Load(init_game(1, init_places))
    /\ player = 0
    /\ Ghosts("init_game")

\* the tuples _decode_action returns in a build of SantoriniConstants with the
\* abilities 0 .. MaxAbility, and their action ids there
Decoded ==
    [worker : 0 .. 1, power : 0 .. MaxAbility,
     move_direction : 0 .. 8, build_direction : 0 .. 8]

ActionOf(d) ==
    (MaxAbility + 1) * 81 * d.worker + 81 * d.power + 9 * d.move_direction
        + d.build_direction

AbilityOf(action) == (action % ((MaxAbility + 1) * 81)) \div 81

\* make_move with an action of an ability other than NO_GOD; an exception ends
\* the run
MakeMoveAbility ==
    /\ err = "none"
    /\ \E d \in {x \in Decoded : x.power # NO_GOD} :
          \E r \in {MoveDecoded(workers, levels, gods_power, _move_count, d, player)} :
              /\ workers' = r.workers
              /\ levels' = r.levels
              /\ gods_power' = r.gods_power
              /\ _move_count' = r._move_count
              /\ err' = r.err
              /\ player' = IF r.err = "none" THEN r.ret ELSE player
              /\ calls' = IF r.err = "none" THEN calls + 1 ELSE calls
              /\ op' = "make_move"
              /\ move' = ActionOf(d)
              /\ mover' = player
    /\ UNCHANGED <<INIT_METHOD, start, policy, valid_actions, symmetries, given,
                   copy_or_not, session>>

\* the given array as it reads once the board's state array holds w, l, gp
Through(w, l, gp) ==
    IF given # << >> /\ SharesGiven(copy_or_not)
    THEN [workers |-> w, levels |-> l, gods_power |-> gp]
    ELSE given

\* copy_state(state, copy_or_not) with the array the caller holds
CopyState ==
    \E flag \in {0, 1} :
        /\ given # << >>
        /\ IF SharesGiven(copy_or_not) /\ flag = 0
           THEN UNCHANGED <<workers, levels, gods_power, _move_count, copy_or_not>>
           ELSE /\ \E b \in {copy_state(given)} :
                      /\ workers' = b.workers
                      /\ levels' = b.levels
                      /\ gods_power' = b.gods_power
                      /\ _move_count' = b._move_count
                /\ copy_or_not' = flag
        /\ op' = "copy_state"
        /\ move' = -1
        /\ mover' = -1
        /\ err' = "none"
        /\ UNCHANGED <<INIT_METHOD, player, start, calls, policy, valid_actions,
                       symmetries, given, session>>

\* legal play on a board whose caller holds the array given to copy_state and the
\* list returned by get_symmetries
MakeMoveCopy ==
    /\ calls < MaxCopyMoves
    /\ \E valids \in {valid_moves(INIT_METHOD, workers, levels, player)} :
          \E a \in {x \in Actions : valids[x]} : ApplyBoard(a, player)
    /\ given' = Through(workers', levels', gods_power')
    /\ symmetries' = Seen(symmetries, workers', levels', gods_power')
    /\ UNCHANGED <<policy, valid_actions, copy_or_not, session>>

\* swap_players(nb_swaps)
SwapPlayers ==
    \E nb_swaps \in 0 .. 2 :
        /\ workers' = swap_players(workers, nb_swaps)
        /\ given' = Through(workers', levels, gods_power)
        /\ symmetries' = Seen(symmetries, workers', levels, gods_power)
        /\ op' = "swap_players"
        /\ move' = nb_swaps
        /\ mover' = -1
        /\ err' = "none"
        /\ UNCHANGED <<INIT_METHOD, levels, gods_power, _move_count, player, start,
                       calls, policy, valid_actions, copy_or_not, session>>

\* get_symmetries by a caller that drops the returned list: what is left of the
\* call is the board, whose state array is written in place (lines 182-183,
\* 188-189, 194-195, 207, 214) and set back to state_backup after each variant
\* (lines 186, 192, 198, 210, 216)
GetSymmetriesDropped ==
    LET state_backup == [workers |-> workers, levels |-> levels, gods_power |-> gods_power]
    IN  /\ workers' = state_backup.workers
        /\ levels' = state_backup.levels
        /\ gods_power' = state_backup.gods_power
        /\ given' = Through(workers', levels', gods_power')
        /\ op' = "get_symmetries"
        /\ move' = -1
        /\ mover' = -1
        /\ err' = "none"
        /\ UNCHANGED <<INIT_METHOD, _move_count, player, start, calls, policy,
                       valid_actions, symmetries, copy_or_not, session>>

\* get_symmetries by a caller that holds no list yet
GetSymmetriesOnce ==
    /\ symmetries = << >>
    /\ GetSymmetries

\* legal play by a caller that holds the list returned by get_symmetries
MakeMoveKept ==
    /\ symmetries # << >>
    /\ MakeMoveCopy

\* a board that took a position of a game in progress with copy_state
InitKeep ==
    /\ INIT_METHOD = 1
    /\ \E state \in Positions : Load(copy_state(state))
    /\ player \in {0, 1}
    /\ Ghosts("copy_state")

\* a freshly initialised board whose caller holds the state of a position
InitCopy ==
    /\ INIT_METHOD = 1
    /\ Load(init_game(1, <<0, 24, 4, 20>>))
    /\ player = 0
    /\ Quiet("init_game")
    /\ given \in Positions
    /\ copy_or_not = -1
    /\ NoSession

Next == MakeMove

\* the boards of Init, each followed by MaxGenMoves legal moves
MaxGenMoves == 1

MakeMoveGen ==
    /\ calls < MaxGenMoves
    /\ \E valids \in {valid_moves(INIT_METHOD, workers, levels, player)} :
          \E a \in {x \in Actions : valids[x]} : Apply(a, player)

NextGen == MakeMoveGen

\* legal moves and swaps of the players, from the position Climb
MaxSwapMoves == 2

MakeMoveSwap ==
    /\ calls < MaxSwapMoves
    /\ \E valids \in {valid_moves(INIT_METHOD, workers, levels, player)} :
          \E a \in {x \in Actions : valids[x]} : Apply(a, player)

InitSwap ==
    /\ INIT_METHOD = 1
    /\ Load(copy_state(Climb))
    /\ player \in {0, 1}
    /\ Ghosts("copy_state")

NextSwap == MakeMoveSwap \/ SwapPlayers

SpecSwap == InitSwap /\ [][NextSwap]_vars

\* legal moves for as long as valid_moves has one, from a late board
MakeMoveEnd ==
    \E valids \in {valid_moves(INIT_METHOD, workers, levels, player)} :
        \E a \in {x \in Actions : valids[x]} : Apply(a, player)

InitEnd ==
    /\ INIT_METHOD = 1
    /\ Load(copy_state(Endgame))
    /\ player \in {0, 1}
    /\ Ghosts("copy_state")

NextEnd == MakeMoveEnd

\* A sequence of moves is maximal: it goes on while a legal move exists. This is
\* WF_vars(NextEnd) with the enabling condition written out: NextEnd is enabled
\* exactly when valid_moves has an action for the player to move, and each of
\* its steps changes calls.
MaximalPlay == []<>(valid_moves(INIT_METHOD, workers, levels, player) = NoAction)
                   \/ []<><<NextEnd>>_vars

SpecEnd == InitEnd /\ [][NextEnd]_vars /\ MaximalPlay

SpecGen == Init /\ [][NextGen]_vars

Spec == Init /\ [][Next]_vars

NextUnchecked == MakeMoveUnchecked

SpecUnchecked == Init /\ [][NextUnchecked]_vars

NextRound == MakeMoveQuiet

SpecRound == InitFresh /\ [][NextRound]_vars

NextSym == MakeMoveSym \/ GetSymmetries

SpecSym == InitSym /\ [][NextSym]_vars

\* the cells the callers place workers on, as action ids 5 * y + x
PlacementCells == {0, 1, 20, 24}

\* deferred placement (INIT_METHOD = 2): each call gives make_move an action set
\* in valid_moves for the player the previous call returned
MakeMovePlaced ==
    /\ calls < 4 + MaxPlaceMoves
    /\ \E valids \in {valid_moves(INIT_METHOD, workers, levels, player)} :
          \E a \in {x \in Actions :
                       valids[x] /\ (AbsSum(workers) = 6 \/ x \in PlacementCells)} :
              Apply(a, player)

\* the empty board of init_game in the build with INIT_METHOD = 2
InitPlace ==
    /\ INIT_METHOD = 2
    /\ Load(init_game(2, << >>))
    /\ player = 0
    /\ Ghosts("init_game")

NextPlace == MakeMovePlaced

SpecPlace == InitPlace /\ [][NextPlace]_vars

NextAbility == MakeMoveAbility

SpecAbility == Init /\ [][NextAbility]_vars

NextCopy == CopyState \/ MakeMoveCopy \/ SwapPlayers \/ GetSymmetriesDropped

SpecCopy == InitCopy /\ [][NextCopy]_vars

NextKeep == GetSymmetriesOnce \/ MakeMoveKept \/ SwapPlayers

SpecKeep == InitKeep /\ [][NextKeep]_vars

-----------------------------------------------------------------------------
(* Properties *)

\* ---------------------------------------------------------------------------
\* The web session of proxy.py: one shared engine board (g.board), the session's
\* board and player, and coroutines that suspend only at their awaits.
\* ---------------------------------------------------------------------------

MaxProxyMoves == 1   \* calls of getNextState in a session
MaxLimit == 1        \* moves list_current_moves_with_adv looks at (its limit)
MaxActions == 2      \* actions of a board that are seen taken: its lowest ones
MaxSearched == 1     \* moves the search is seen to have tried on g.board
MaxHistory == 3      \* entries of history in a session of moves, undos and redos
MaxSims == 2         \* the highest numMCTSSims given to the session

\* the most moves a session plays from its first board
MaxDepth == IF MaxHistory > MaxProxyMoves THEN MaxHistory ELSE MaxProxyMoves

Tasks == {1, 2}

Coroutines ==
    {"guessBestAction", "calculate_eval_for_current_position",
     "list_current_moves_with_adv"}

\* the n lowest members of a set of numbers
RECURSIVE Lowest(_, _)
Lowest(S, n) ==
    IF n = 0 \/ S = {}
    THEN {}
    ELSE LET m == CHOOSE x \in S : \A y \in S : x <= y
         IN  {m} \cup Lowest(S \ {m}, n - 1)

\* g.board as a value
GBoard ==
    [workers |-> workers, levels |-> levels, gods_power |-> gods_power,
     _move_count |-> _move_count]

\* get_state(): the state array of an engine board
get_state(b) ==
    [workers |-> b.workers, levels |-> b.levels, gods_power |-> b.gods_power]

\* an engine board without what a call returned
BoardOf(r) ==
    [workers |-> r.workers, levels |-> r.levels, gods_power |-> r.gods_power,
     _move_count |-> r._move_count]

SetGBoard(b) ==
    /\ workers' = b.workers
    /\ levels' = b.levels
    /\ gods_power' = b.gods_power
    /\ _move_count' = b._move_count

\* Game.getCanonicalForm(state, p), by what it leaves in g.board: nothing for
\* player 0; for player 1 a copy of the state with the occupant signs negated
getCanonicalForm(gb, state, p) ==
    IF p = 0
    THEN gb
    ELSE LET c == copy_state(state)
         IN  [c EXCEPT !.workers = swap_players(c.workers, p)]

\* Game.getNextState(state, p, action): the move is applied to a copy of the
\* state held in g.board
Game_getNextState(state, p, a) ==
    LET c == copy_state(state)
    IN  make_move(1, c.workers, c.levels, c.gods_power, c._move_count, a, p)
        \* 1: INIT_METHOD of the session

\* Game.getValidMoves(state, p), as the set of the actions set in the mask
getValidMoves(state, p) ==
    {a \in Actions : valid_moves(1, state.workers, state.levels, p)[a]}

\* the boards and players a session reaches in n moves, each with its valids
RECURSIVE Sessions(_)
Sessions(n) ==
    IF n = 0
    THEN {<<Climb, p, getValidMoves(Climb, p)>> : p \in {0, 1}}
    ELSE LET before == Sessions(n - 1)
             after == UNION {{Game_getNextState(s[1], s[2], a) :
                              a \in Lowest(s[3], MaxActions)} : s \in before}
         IN  before \cup
             {<<get_state(r), r.ret, getValidMoves(get_state(r), r.ret)>> : r \in after}

SessionValids == Sessions(MaxDepth)

\* valids = g.getValidMoves(board, player), computed once for each board
ValidsOf(state, p) ==
    (CHOOSE s \in SessionValids : s[1] = state /\ s[2] = p)[3]

\* What MCTS.getActionProb can leave in g.board while it is suspended: the
\* canonical form of the session's board, or that board one searched move on
SearchBoards(state, p, actions) ==
    LET c == copy_state(state)
        canonical == [c EXCEPT !.workers = swap_players(c.workers, p)]
    IN  {canonical} \cup
        {BoardOf(Game_getNextState(get_state(canonical), 0, a)) :
         a \in Lowest(actions, MaxSearched)}

RestoreBoard_skipped(gb, state) == gb

\* g.board.copy_state(board, True) after an await
RestoreBoard(gb, state) == copy_state(state)

Idle == [coro |-> "none", pc |-> "idle", probs |-> {}, checked |-> 0]

Suspended(t) == tasks[t].pc \in {"await", "searched"}

\* the mcts of init_game(numMCTSSims); no coroutine runs
Mcts(numMCTSSims) ==
    [numMCTSSims |-> numMCTSSims, configured |-> numMCTSSims,
     prev_sims |-> [t \in Tasks |-> 0], nb_MCTS_sims |-> [t \in Tasks |-> 0]]

\* the numMCTSSims a caller gives list_current_moves_with_adv: None (-1), or a
\* number
Overrides == -1 .. MaxSims

\* finally: mcts.args.numMCTSSims = prev_sims, and the coroutine is over
Finally(m, t) ==
    [m EXCEPT !.numMCTSSims = m.prev_sims[t], !.prev_sims[t] = 0,
              !.nb_MCTS_sims[t] = 0]

\* a coroutine runs up to its first await: list_current_moves_with_adv keeps
\* prev_sims and sets its override, then g.getCanonicalForm(board, player) and
\* the call of mcts.getActionProb, which takes the count of its search from
\* mcts.args.numMCTSSims
StartCoroutineWith(overrides) ==
    \E t \in Tasks, coro \in Coroutines, numMCTSSims \in overrides :
        /\ tasks[t].pc = "idle"
        /\ coro # "list_current_moves_with_adv" => numMCTSSims = -1
        /\ SetGBoard(getCanonicalForm(GBoard, board, player))
        /\ tasks' = [tasks EXCEPT ![t] = [Idle EXCEPT !.coro = coro, !.pc = "await",
                                           !.probs = Lowest(session_valids, MaxActions)]]
        /\ \E count \in {IF numMCTSSims # -1 /\ numMCTSSims > 0
                         THEN numMCTSSims ELSE mcts.numMCTSSims} :
            mcts' = [mcts EXCEPT
                        !.numMCTSSims = count,
                        !.prev_sims[t] = IF coro = "list_current_moves_with_adv"
                                         THEN mcts.numMCTSSims ELSE 0,
                        !.nb_MCTS_sims[t] = count]
        /\ op' = "await"
        /\ mover' = t
        /\ move' = numMCTSSims
        /\ UNCHANGED <<INIT_METHOD, player, start, err, calls, policy, valid_actions,
                       symmetries, given, copy_or_not, board, session_valids,
                       history, future_history>>

\* the coroutines of a session that gives no numMCTSSims
StartCoroutine == StartCoroutineWith({-1})

\* the search runs while the coroutine is suspended in mcts.getActionProb
Search ==
    \E t \in Tasks :
        /\ tasks[t].pc = "await"
        /\ \E b \in SearchBoards(board, player, session_valids) : SetGBoard(b)
        /\ tasks' = [tasks EXCEPT ![t].pc = "searched"]
        /\ op' = "getActionProb"
        /\ mover' = t
        /\ move' = -1
        /\ UNCHANGED <<INIT_METHOD, player, start, err, calls, policy, valid_actions,
                       symmetries, given, copy_or_not, board, session_valids,
                       history, future_history, mcts>>

\* guessBestAction and calculate_eval_for_current_position after their await:
\* the restore, and the return
Resume ==
    \E t \in Tasks :
        /\ Suspended(t)
        /\ tasks[t].coro \in {"guessBestAction", "calculate_eval_for_current_position"}
        /\ SetGBoard(RestoreBoard(GBoard, board))
        /\ tasks' = [tasks EXCEPT ![t] = Idle]
        /\ mcts' = [mcts EXCEPT !.nb_MCTS_sims[t] = 0]
        /\ op' = tasks[t].coro
        /\ mover' = t
        /\ move' = -1
        /\ UNCHANGED <<INIT_METHOD, player, start, err, calls, policy, valid_actions,
                       symmetries, given, copy_or_not, board, session_valids,
                       history, future_history>>

\* list_current_moves_with_adv after an await: the restore, then either the
\* return, or the next move of its list up to the next await; the finally
\* clause runs when it returns and when it raises
ResumeList ==
    \E t \in Tasks :
        /\ Suspended(t)
        /\ tasks[t].coro = "list_current_moves_with_adv"
        /\ \E restored \in {RestoreBoard(GBoard, board)} :
            \/ /\ SetGBoard(restored)
               /\ tasks' = [tasks EXCEPT ![t] = Idle]
               /\ mcts' = Finally(mcts, t)
               /\ op' = tasks[t].coro
               /\ move' = -1
               /\ err' = err
            \/ /\ tasks[t].checked < MaxLimit
               /\ \E a \in tasks[t].probs :
                   \E r \in {Game_getNextState(board, player, a)} :
                       /\ move' = a
                       /\ err' = r.err
                       /\ IF r.err = "none"
                          THEN /\ SetGBoard(getCanonicalForm(BoardOf(r), get_state(r),
                                                             r.ret))
                               /\ tasks' = [tasks EXCEPT ![t].pc = "await",
                                                         ![t].checked = @ + 1]
                               /\ mcts' = [mcts EXCEPT
                                              !.nb_MCTS_sims[t] = mcts.numMCTSSims]
                               /\ op' = "await"
                          ELSE /\ SetGBoard(BoardOf(r))
                               /\ tasks' = [tasks EXCEPT ![t] = Idle]
                               /\ mcts' = Finally(mcts, t)
                               /\ op' = "raised"
        /\ mover' = t
        /\ UNCHANGED <<INIT_METHOD, player, start, calls, policy, valid_actions,
                       symmetries, given, copy_or_not, board, session_valids,
                       history, future_history>>

\* changeDifficulty(numMCTSSims)
ChangeDifficulty ==
    \E numMCTSSims \in 1 .. MaxSims :
        /\ board # << >>
        /\ mcts' = [mcts EXCEPT !.numMCTSSims = numMCTSSims,
                                !.configured = numMCTSSims]
        /\ op' = "changeDifficulty"
        /\ move' = numMCTSSims
        /\ mover' = -1
        /\ err' = "none"
        /\ UNCHANGED <<INIT_METHOD, workers, levels, gods_power, _move_count, player,
                       start, calls, policy, valid_actions, symmetries, given,
                       copy_or_not, board, session_valids, tasks, history,
                       future_history>>

\* the entry getNextState and redo_next_move put in front of history
Entry(p, state, a) == [player |-> p, board |-> state, action |-> a]

\* an insert at the end of the list
Insert_at_end(entries, entry) == entries \o <<entry>>

\* history.insert(0, entry)
Insert(entries, entry) == <<entry>> \o entries

\* proxy.getNextState(action): the session's move
PlayMove ==
    /\ board # << >>
    /\ \E a \in Lowest(session_valids, MaxActions) :
        \E r \in {Game_getNextState(board, player, a)} :
            /\ future_history' = << >>
            /\ history' = Insert(history, Entry(player, board, a))
            /\ SetGBoard(BoardOf(r))
            /\ board' = get_state(r)
            /\ player' = r.ret
            /\ session_valids' = ValidsOf(get_state(r), r.ret)
            /\ err' = r.err
            /\ move' = a
    /\ mover' = player
    /\ calls' = Len(history')
    /\ op' = "getNextState"
    /\ UNCHANGED <<INIT_METHOD, start, policy, valid_actions, symmetries, given,
                   copy_or_not, tasks, mcts>>

GetNextState ==
    /\ calls < MaxProxyMoves
    /\ PlayMove

\* the session after init_game and import_practice_state, but for its mcts
InitSession ==
    /\ INIT_METHOD = 1
    /\ Load(copy_state(Climb))
    /\ board = Climb
    /\ player \in {0, 1}
    /\ session_valids = ValidsOf(board, player)
    /\ Quiet("copy_state")
    /\ given = << >>
    /\ copy_or_not = -1
    /\ tasks = [t \in Tasks |-> Idle]
    /\ history = << >>
    /\ future_history = << >>

InitProxy ==
    /\ InitSession
    /\ mcts = Mcts(1)

\* the session after init_game(numMCTSSims)
InitSims ==
    /\ InitSession
    /\ \E numMCTSSims \in 1 .. MaxSims : mcts = Mcts(numMCTSSims)

\* the entries in the order of history
Reverse_kept(entries) == entries

\* removed_states[::-1]
Reverse(entries) == [i \in 1 .. Len(entries) |-> entries[Len(entries) + 1 - i]]

\* the session globals the history handlers read and write
Session ==
    [player |-> player, board |-> board, history |-> history,
     future_history |-> future_history]

\* _finalize_revert(removed_states)
_finalize_revert(s, removed_states) ==
    IF removed_states = << >>
    THEN s
    ELSE LET target_state == removed_states[Len(removed_states)]
         IN  [player |-> target_state.player,
              board |-> target_state.board,
              history |-> SubSeq(s.history, Len(removed_states) + 1, Len(s.history)),
              future_history |-> Reverse(removed_states) \o s.future_history]

\* revert_last_move()
revert_last_move(s) ==
    _finalize_revert(s, IF Len(s.history) = 0 THEN << >> ELSE SubSeq(s.history, 1, 1))

\* the entries revert_to_previous_move takes off history; -1 stands for None
RemovedStates(s, player_asking_revert) ==
    LET found == {index \in 1 .. Len(s.history) :
                     /\ s.history[index].player = player_asking_revert
                     /\ (index = Len(s.history)
                         \/ s.history[index + 1].player # player_asking_revert)}
    IN  IF Len(s.history) = 0 THEN << >>
        ELSE IF player_asking_revert = -1 THEN SubSeq(s.history, 1, 1)
        ELSE IF found = {} THEN << >>
        ELSE SubSeq(s.history, 1,
                    CHOOSE index \in found : \A other \in found : index <= other)

\* revert_to_previous_move(player_asking_revert)
revert_to_previous_move(s, player_asking_revert) ==
    _finalize_revert(s, RemovedStates(s, player_asking_revert))

\* jump_to_move_index(move_index), move_index counted from 0: history is kept
jump_to_move_index(s, move_index) ==
    IF move_index < 0 \/ move_index >= Len(s.history)
    THEN s
    ELSE LET state == s.history[move_index + 1]
         IN  [s EXCEPT !.player = state.player, !.board = state.board,
                       !.future_history = << >>]

\* redo_next_move()
redo_next_move(s) ==
    IF Len(s.future_history) = 0
    THEN s
    ELSE LET next_state == Head(s.future_history)
             r == Game_getNextState(next_state.board, next_state.player,
                                    next_state.action)
         IN  [player |-> r.ret,
              board |-> get_state(r),
              history |-> Insert(s.history, Entry(next_state.player, next_state.board,
                                                  next_state.action)),
              future_history |-> Tail(s.future_history)]

\* a handler's end: g.getGameEnded(board, player) and g.getValidMoves(board,
\* player) load the session's board into g.board
EndAndValids(state, p) ==
    /\ SetGBoard(copy_state(state))
    /\ session_valids' = ValidsOf(state, p)

\* a history handler has run: the session after it
Handled(after, handler, argument) ==
    /\ player' = after.player
    /\ board' = after.board
    /\ history' = after.history
    /\ future_history' = after.future_history
    /\ EndAndValids(after.board, after.player)
    /\ calls' = Len(after.history)
    /\ op' = handler
    /\ move' = argument
    /\ mover' = -1
    /\ err' = "none"
    /\ UNCHANGED <<INIT_METHOD, start, policy, valid_actions, symmetries, given,
                   copy_or_not, tasks, mcts>>

RevertLastMove ==
    \E after \in {revert_last_move(Session)} : Handled(after, "revert_last_move", -1)

RevertToPreviousMove ==
    \E player_asking_revert \in {-1, 0, 1} :
        \E after \in {revert_to_previous_move(Session, player_asking_revert)} :
            Handled(after, "revert_to_previous_move", player_asking_revert)

\* an index outside history returns before g is asked anything
JumpToMoveIndex ==
    \E move_index \in -1 .. Len(history) :
        IF move_index < 0 \/ move_index >= Len(history)
        THEN /\ op' = "jump_to_move_index"
             /\ move' = move_index
             /\ mover' = -1
             /\ err' = "none"
             /\ UNCHANGED <<INIT_METHOD, workers, levels, gods_power, _move_count,
                            player, start, calls, policy, valid_actions, symmetries,
                            given, copy_or_not, session>>
        ELSE \E after \in {jump_to_move_index(Session, move_index)} :
                Handled(after, "jump_to_move_index", move_index)

RedoNextMove ==
    \E after \in {redo_next_move(Session)} :
        Handled(after, "redo_next_move",
                IF Len(future_history) = 0 THEN -1 ELSE Head(future_history).action)

GetNextStateHistory ==
    /\ Len(history) < MaxHistory
    /\ PlayMove

NextHistory ==
    GetNextStateHistory \/ RevertLastMove \/ RevertToPreviousMove \/ RedoNextMove
        \/ JumpToMoveIndex

SpecHistory == InitProxy /\ [][NextHistory]_vars

NextProxy == StartCoroutine \/ Search \/ Resume \/ ResumeList \/ GetNextState

SpecProxy == InitProxy /\ [][NextProxy]_vars

StartCoroutineSims == StartCoroutineWith(Overrides)

NextSims ==
    StartCoroutineSims \/ Search \/ Resume \/ ResumeList \/ ChangeDifficulty

SpecSims == InitSims /\ [][NextSims]_vars

Mask(p) == valid_moves(INIT_METHOD, workers, levels, p)

Empty(p) == Mask(p) = NoAction

EndGame(next_player) == check_end_game(INIT_METHOD, workers, levels, next_player)

WorkerOf(a, p) == worker_ids(p)[_decode_action(a).worker + 1]

\* on board w: the cell the acting worker of action a stands on, the cell the action
\* moves it to, and the cell it then builds on
Origin(w, a, p) == _get_worker_position(w, WorkerOf(a, p))
Destination(w, a, p) == _apply_direction(Origin(w, a, p), _decode_action(a).move_direction)
BuildTarget(w, a, p) == _apply_direction(Destination(w, a, p), _decode_action(a).build_direction)

\* after a make_move: where the moved worker stands, the cell it left, the cell it built on
LastDestination == _get_worker_position(workers, WorkerOf(move, mover))
LastOrigin ==
    <<LastDestination[1] - deltas[_decode_action(move).move_direction + 1][1],
      LastDestination[2] - deltas[_decode_action(move).move_direction + 1][2]>>
LastBuilt == _apply_direction(LastDestination, _decode_action(move).build_direction)

Mine(p, c) == IF p = 0 THEN workers[c] > 0 ELSE workers[c] < 0

OnThree(p) == \E c \in Cells : Mine(p, c) /\ levels[c] = 3

Loss(p) == IF p = 0 THEN <<-1, 1>> ELSE <<1, -1>>

\* some worker of player p has a destination _able_to_move_worker_to accepts
CanMove(p) ==
    \E worker_index \in 0 .. 1 :
        LET position == _get_worker_position(workers, worker_ids(p)[worker_index + 1])
        IN  /\ position # <<-1, -1>>
            /\ \E move_direction \in (0 .. 8) \ {NO_MOVE} :
                  _able_to_move_worker_to(workers, levels, position,
                                          _apply_direction(position, move_direction), p)

\* C1: for both players, no action set in valid_moves moves a worker onto a cell
\* that is occupied by a worker (of either player)
C1_NoMoveOntoWorker ==
    \A p \in {0, 1} :
        \A valids \in {Mask(p)} :
            \A a \in Actions : valids[a] => workers[Destination(workers, a, p)] = 0

\* C2: in legal play from four placed workers, each of +1, +2, -1, -2 is on exactly
\* one cell
C2_FourWorkers ==
    \A id \in {1, 2, -1, -2} : Cardinality({c \in Cells : workers[c] = id}) = 1

\* C3: in legal play every height stays within 0..4 and no height ever decreases
C3_HeightsMonotone ==
    /\ \A c \in Cells : levels[c] \in 0 .. 4
    /\ [][\A c \in Cells : levels'[c] \in 0 .. 4 /\ levels'[c] >= levels[c]]_vars

\* a legal move has just built the fourth level of a tower
C3_Witness ==
    /\ op = "make_move"
    /\ levels[LastBuilt] = 4

\* C4: a make_move that returns and whose build target has height 4 leaves that
\* cell at height 4, whether or not the action was validated
C4_BuildCapped ==
    [][(/\ op' = "make_move"
        /\ err' = "none"
        /\ _decode_action(move').build_direction # NO_BUILD
        /\ levels[Index(BuildTarget(workers, move', mover'))] = 4)
       => levels'[Index(BuildTarget(workers, move', mover'))] = 4]_vars

\* C5: a make_move with an action set in valid_moves empties the origin, puts the
\* same worker on the destination, raises exactly the build target by exactly 1,
\* leaves every other occupant and height unchanged and returns 1 - player
C5_MakeMoveEffect ==
    [][(op' = "make_move" /\ Mask(mover')[move'])
       => LET origin == Origin(workers, move', mover')
              destination == Destination(workers, move', mover')
              target == BuildTarget(workers, move', mover')
          IN  /\ err' = "none"
              /\ workers'[origin] = 0
              /\ workers'[destination] = WorkerOf(move', mover')
              /\ \A c \in Cells \ {origin, destination} : workers'[c] = workers[c]
              /\ levels'[target] = levels[target] + 1
              /\ \A c \in Cells \ {target} : levels'[c] = levels[c]
              /\ player' = 1 - mover']_vars

\* a legal move has just built on the cell the worker left
C5_Witness ==
    /\ op = "make_move"
    /\ err = "none"
    /\ LastBuilt = LastOrigin
    /\ workers[LastOrigin] = 0
    /\ levels[LastOrigin] >= 1

\* C6: with a player-0 worker on height 3, check_end_game is (+1,-1) for either
\* next_player; with none but a player-1 worker on height 3 it is (-1,+1)
C6_WinPrecedence ==
    \A next_player \in {0, 1} :
        /\ OnThree(0) => EndGame(next_player) = <<1, -1>>
        /\ (~OnThree(0) /\ OnThree(1)) => EndGame(next_player) = <<-1, 1>>

\* player 0 has just stepped onto height 3 while player 1 stands on height 3 too
C6_Witness ==
    /\ op = "make_move"
    /\ mover = 0
    /\ levels[LastDestination] = 3
    /\ OnThree(1)
    /\ EndGame(player) = <<1, -1>>

\* C7: with no worker on height 3, check_end_game(next_player) is the loss pair of
\* next_player exactly when valid_moves(next_player) is empty and (0,0) otherwise;
\* every pair it returns sums to zero
C7_NoMoveLoses ==
    \A next_player \in {0, 1} :
        \A end \in {EndGame(next_player)} :
            /\ end[1] + end[2] = 0
            /\ (~OnThree(0) /\ ~OnThree(1))
                  => end = (IF Empty(next_player) THEN Loss(next_player) ELSE <<0, 0>>)

\* a legal move has just left the player to move without any legal move
C7_Witness ==
    /\ op = "make_move"
    /\ ~OnThree(0) /\ ~OnThree(1)
    /\ Empty(player)
    /\ EndGame(player) = Loss(player)
    /\ EndGame(1 - player) = <<0, 0>>

\* C8: in legal play, valid_moves(player) is empty exactly when neither worker of
\* the player has a destination it is able to move to
C8_EmptyIffCannotMove ==
    \A p \in {0, 1} : Empty(p) <=> ~CanMove(p)

\* after a legal move, a player can move and every action in its mask builds on
\* the cell the worker leaves
C8_Witness ==
    /\ op = "make_move"
    /\ \E p \in {0, 1} :
          /\ CanMove(p)
          /\ \A valids \in {Mask(p)} :
                \A a \in Actions :
                    valids[a] => BuildTarget(workers, a, p) = Origin(workers, a, p)

Min(a, b) == IF a < b THEN a ELSE b

\* C9: after n make_move calls on a freshly initialised board get_round returns
\* min(n, 127), and the round slot of the state equals the board's counter
C9_RoundSaturates ==
    /\ get_round(gods_power) = Min(calls, 127)
    /\ _move_count = get_round(gods_power)

\* the counter has stayed at 127 over a further move
C9_Witness ==
    /\ op = "make_move"
    /\ err = "none"
    /\ calls > 127
    /\ get_round(gods_power) = 127

FourPlaced == \A id \in {1, 2, -1, -2} : \E c \in Cells : workers[c] = id

\* C10 as stated: with four placed workers get_symmetries returns exactly 10
\* triples (8 geometric variants and 2 worker-swap variants)
C10_TenSymmetries ==
    (op = "get_symmetries" /\ FourPlaced) => Len(symmetries) = 10

\* the board of the i-th returned triple is the board with the cell at g(c) moved to c
ImageOf(i, g(_)) ==
    \A c \in Cells :
        /\ symmetries[i][1].workers[c] = workers[g(c)]
        /\ symmetries[i][1].levels[c] = levels[g(c)]

\* the board of the i-th returned triple is the board with the workers a and b exchanged
SwapOf(i, a, b) ==
    /\ symmetries[i][1].levels = levels
    /\ \A c \in Cells :
          symmetries[i][1].workers[c] =
              (IF workers[c] = a THEN b ELSE IF workers[c] = b THEN a ELSE workers[c])

Same(c) == c
Turn1(c) == <<c[2], N - 1 - c[1]>>
Turn2(c) == <<N - 1 - c[1], N - 1 - c[2]>>
Turn3(c) == <<N - 1 - c[2], c[1]>>
MirrorLR(c) == <<c[1], N - 1 - c[2]>>
MirrorUD(c) == <<N - 1 - c[1], c[2]>>

\* C10 amended: with four placed workers get_symmetries returns exactly 8 triples:
\* 6 geometric variants (the identity, the three quarter turns, the left-right and
\* the up-down mirror image) followed by the 2 worker-swap variants
C10_EightSymmetries ==
    (op = "get_symmetries" /\ FourPlaced)
       => /\ Len(symmetries) = 8
          /\ ImageOf(1, Same) /\ ImageOf(2, Turn1) /\ ImageOf(3, Turn2)
          /\ ImageOf(4, Turn3) /\ ImageOf(5, MirrorLR) /\ ImageOf(6, MirrorUD)
          /\ SwapOf(7, 1, 2) /\ SwapOf(8, -1, -2)

\* get_symmetries has returned on a position with four workers reached by a legal move
C10_Witness ==
    /\ op = "get_symmetries"
    /\ FourPlaced
    /\ calls >= 1
    /\ Len(symmetries) = 8

\* the action permutation p followed by the action permutation q
Compose(p, q) == Array([a \in Actions |-> q[p[a]]])

\* the action permutation of each geometric variant, in the order of the list
GeometricPermutations ==
    <<Array([a \in Actions |-> a]),
      rotation,
      Compose(rotation, rotation),
      Compose(Compose(rotation, rotation), rotation),
      flipLR,
      flipUD>>

\* C11: when the mask passed to get_symmetries is valid_moves of the board for
\* player 0, each geometric variant has the mask that valid_moves gives on the
\* variant's board for player 0, and has policy and mask permuted by the variant's
\* action permutation (the k-th rotation by rotation composed k times)
C11_GeometricVariants ==
    op = "get_symmetries"
       => \A i \in 1 .. 6 :
             /\ symmetries[i][3] = valid_moves(INIT_METHOD, symmetries[i][1].workers,
                                               symmetries[i][1].levels, 0)
             /\ \A a \in Actions :
                   /\ symmetries[i][2][GeometricPermutations[i][a]] = policy[a]
                   /\ symmetries[i][3][GeometricPermutations[i][a]] = valid_actions[a]

\* get_symmetries has returned after a legal move, on a mask with an action set
\* that every rotation and flip sends to an action the mask does not set
C11_Witness ==
    /\ op = "get_symmetries"
    /\ calls >= 1
    /\ \E a \in Actions :
          /\ valid_actions[a]
          /\ \A i \in 2 .. 6 : ~valid_actions[GeometricPermutations[i][a]]
          /\ policy[a] = a

\* the vectors of the i-th returned triple are the inputs with the worker index of
\* every action flipped
WorkerIndexFlipped(i) ==
    \A worker \in 0 .. 1 : \A move_direction \in 0 .. 8 : \A build_direction \in 0 .. 8 :
        \A from \in {_encode_action(worker, NO_GOD, move_direction, build_direction)} :
        \A to \in {_encode_action(1 - worker, NO_GOD, move_direction, build_direction)} :
            /\ symmetries[i][2][to] = policy[from]
            /\ symmetries[i][3][to] = valid_actions[from]

\* C12: in the player-0 worker-swap variant the cells holding +1 and +2 are
\* exchanged and nothing else on the board changes, policy and mask are the inputs
\* with the worker index flipped, and the mask is valid_moves of the swapped board
\* for player 0; in the player-1 worker-swap variant the cells holding -1 and -2
\* are exchanged and policy and mask are the inputs
C12_WorkerSwapVariants ==
    (op = "get_symmetries" /\ Len(symmetries) = 8)
       => /\ SwapOf(7, 1, 2)
          /\ symmetries[7][1].gods_power = gods_power
          /\ WorkerIndexFlipped(7)
          /\ symmetries[7][3] = valid_moves(INIT_METHOD, symmetries[7][1].workers,
                                            symmetries[7][1].levels, 0)
          /\ SwapOf(8, -1, -2)
          /\ symmetries[8][1].gods_power = gods_power
          /\ symmetries[8][2] = policy
          /\ symmetries[8][3] = valid_actions

\* exactly the four workers +1, +2, -1, -2 are on the board
ExactlyFour ==
    /\ FourPlaced
    /\ Cardinality({c \in Cells : workers[c] # 0}) = 4

\* C13: get_symmetries returns the two worker-swap variants only when exactly the
\* four workers are on the board; with fewer workers it returns the geometric
\* variants only; no returned board holds a worker id the input board did not hold
C13_SwapsOnlyWithFourWorkers ==
    op = "get_symmetries"
       => /\ Len(symmetries) > 6 => ExactlyFour
          /\ ~FourPlaced => Len(symmetries) = 6
          /\ \A i \in 1 .. Len(symmetries) : \A c \in Cells :
                symmetries[i][1].workers[c] # 0
                   => \E c2 \in Cells : workers[c2] = symmetries[i][1].workers[c]

\* C14: the first triple get_symmetries returns is the input state, policy and
\* mask, and stays so whatever is done to the board afterwards
C14_FirstTripleIsInput ==
    /\ op = "get_symmetries"
          => symmetries[1] = Triple(workers, levels, gods_power, policy, valid_actions)
    /\ [][(symmetries # << >> /\ op' # "get_symmetries")
             => symmetries'[1] = symmetries[1]]_vars

\* the caller holds a list whose first triple is the board as it was at the call,
\* and a later move has changed the board
C14_Witness ==
    /\ op = "make_move"
    /\ symmetries # << >>
    /\ symmetries[1][2] = policy
    /\ symmetries[1][1].levels # levels
    /\ symmetries[1][1].workers # workers

\* C15: swap_players(1) applied twice gives the state back; one swap_players(1)
\* negates every occupant and leaves heights, round slot and counter unchanged;
\* swap_players(n) with n other than 1 changes nothing
C15_SwapPlayersInvolution ==
    /\ swap_players(swap_players(workers, 1), 1) = workers
    /\ [][op' = "swap_players"
             => /\ \A c \in Cells :
                      workers'[c] = (IF move' = 1 THEN -workers[c] ELSE workers[c])
                /\ levels' = levels
                /\ gods_power' = gods_power
                /\ get_round(gods_power') = get_round(gods_power)
                /\ _move_count' = _move_count]_vars

\* swap_players(1) has just run on a board with towers and a round counter that
\* is not 0, and player 0's first worker is now where player 1's was
C15_Witness ==
    /\ op = "swap_players"
    /\ move = 1
    /\ get_round(gods_power) > 0
    /\ calls >= 1
    /\ \E c \in Cells : workers[c] = 1 /\ levels[c] > 0

\* C16: copy_state(state, True) makes the board equal to the given state and the
\* cached move count equal to the round stored in it, and leaves the given array
\* unchanged; so does every later make_move, swap_players and get_symmetries on
\* the board
C16_CopyStateIndependent ==
    [][/\ (op' = "copy_state" /\ copy_or_not' = 1)
             => /\ workers' = given.workers
                /\ levels' = given.levels
                /\ gods_power' = given.gods_power
                /\ _move_count' = get_round(given.gods_power)
                /\ given' = given
       /\ (copy_or_not = 1 /\ op' \in {"make_move", "swap_players", "get_symmetries"})
             => given' = given]_vars

\* after copy_state(state, True) a move has been made on the board, and the given
\* array still reads as it was given
C16_Witness ==
    /\ copy_or_not = 1
    /\ op = "make_move"
    /\ given \in Positions
    /\ levels # given.levels
    /\ _move_count = get_round(given.gods_power) + 1

\* C17: make_move with an action that decodes to an ability other than NO_GOD
\* raises an error and leaves occupants, heights, round slot and counter as they
\* were
C17_AbilityRejected ==
    [][(op' = "make_move" /\ AbilityOf(move') # NO_GOD)
          => /\ err' = "ValueError"
             /\ workers' = workers
             /\ levels' = levels
             /\ gods_power' = gods_power
             /\ _move_count' = _move_count]_vars

\* make_move has raised on an action of another ability whose move and build
\* directions are those of an action set in valid_moves
C17_Witness ==
    /\ op = "make_move"
    /\ err = "ValueError"
    /\ AbilityOf(move) # NO_GOD
    /\ Mask(mover)[_encode_action(move \div ((MaxAbility + 1) * 81), NO_GOD,
                                  (move % 81) \div 9, move % 9)]

\* the worker ids in the order of the placements
PlacementOrder == <<1, -1, 2, -2>>

\* C18: with INIT_METHOD = 2, from the empty board with player 0 to place, the
\* four placements put +1, -1, +2, -2 in that order, each by the player the call
\* before returned; check_end_game is (0,0) before the fourth; after the fourth
\* each id is on exactly one cell and valid_moves, check_end_game and make_move
\* are those of normal play
C18_PlacementOrder ==
    /\ calls < 4 => \A next_player \in {0, 1} : EndGame(next_player) = <<0, 0>>
    /\ calls = 4
          => /\ ExactlyFour
             /\ \A id \in {1, 2, -1, -2} : Cardinality({c \in Cells : workers[c] = id}) = 1
             /\ \A p \in {0, 1} :
                   /\ Mask(p) = valid_moves(1, workers, levels, p)
                   /\ EndGame(p) = check_end_game(1, workers, levels, p)
    /\ [][(op' = "make_move" /\ calls < 4)
             => /\ err' = "none"
                /\ mover' = calls % 2
                /\ player' = 1 - mover'
                /\ workers[Flat(move')] = 0
                /\ workers' = [workers EXCEPT ![Flat(move')] = PlacementOrder[calls + 1]]
                /\ levels' = levels]_vars
    /\ [][(op' = "make_move" /\ calls = 4)
             => \E r \in {make_move(1, workers, levels, gods_power, _move_count,
                                     move', mover')} :
                   /\ workers' = r.workers
                   /\ levels' = r.levels
                   /\ _move_count' = r._move_count
                   /\ Cardinality({c \in Cells : levels'[c] = 1}) = 1]_vars

\* after the four placements a first move of normal play has been made
C18_Witness ==
    /\ INIT_METHOD = 2
    /\ calls = 5
    /\ op = "make_move"
    /\ get_round(gods_power) = 5
    /\ \E c \in Cells : levels[c] = 1

C20_ValidMovesAreMoves ==
    \A p \in {0, 1} :
        \A mask \in {Mask(p)} :
            \A positions \in {[worker_index \in {0, 1} |->
                                  _get_worker_position(workers,
                                                       worker_ids(p)[worker_index + 1])]} :
                /\ \A a \in Actions :
                    mask[a] =>
                        \A d \in {_decode_action(a)} :
                            \A origin \in {positions[d.worker]} :
                                \A destination \in {_apply_direction(origin,
                                                                     d.move_direction)} :
                                    /\ origin \in Cells
                                    /\ workers[origin] = worker_ids(p)[d.worker + 1]
                                    /\ (p = 0) = (workers[origin] > 0)
                                    /\ d.move_direction \in (0 .. 8) \ {NO_MOVE}
                                    /\ destination \in Cells
                                    /\ levels[destination] <= 3
                                    /\ levels[destination] <= levels[origin] + 1
                /\ \A worker_index \in {0, 1}, move_direction \in (0 .. 8) \ {NO_MOVE} :
                    \A origin \in {positions[worker_index]} :
                        \A destination \in {_apply_direction(origin, move_direction)} :
                            (/\ origin \in Cells
                             /\ destination \in Cells
                             /\ levels[destination] <= 3
                             /\ levels[destination] <= levels[origin] + 1
                             /\ workers[destination] = 0)
                            => \A build_direction \in (0 .. 8) \ {NO_BUILD} :
                                \A target \in {_apply_direction(destination,
                                                                build_direction)} :
                                    (/\ target \in Cells
                                     /\ levels[target] < 4
                                     /\ (workers[target] = 0 \/ target = origin))
                                    => mask[_encode_action(worker_index, NO_GOD,
                                                           move_direction, build_direction)]

\* after a move, the player to move has a set action one level up onto height 3,
\* and a worker next to a cell of the grid at most 3 high that is too high for it
C20_Witness ==
    /\ op = "make_move"
    /\ err = "none"
    /\ \E a \in Actions :
        /\ Mask(player)[a]
        /\ levels[Destination(workers, a, player)] = 3
        /\ levels[Origin(workers, a, player)] = 2
    /\ \E worker_index \in {0, 1}, move_direction \in (0 .. 8) \ {NO_MOVE} :
        LET origin == _get_worker_position(workers, worker_ids(player)[worker_index + 1])
            destination == _apply_direction(origin, move_direction)
        IN  /\ origin \in Cells
            /\ destination \in Cells
            /\ workers[destination] = 0
            /\ levels[destination] <= 3
            /\ levels[destination] > levels[origin] + 1

\* C21: every action set in valid_moves builds in a direction other than
\* NO_BUILD on a cell of the grid, reached from the move's destination, that is
\* below height 4 and holds no worker or is the cell the moving worker leaves;
\* the cell never holds another worker and is never the destination.
C21_ValidMovesBuild ==
    \A p \in {0, 1} :
        \A mask \in {Mask(p)} :
            \A positions \in {[worker_index \in {0, 1} |->
                                  _get_worker_position(workers,
                                                       worker_ids(p)[worker_index + 1])]} :
                \A a \in Actions :
                    mask[a] =>
                        \A d \in {_decode_action(a)} :
                            \A origin \in {positions[d.worker]} :
                                \A destination \in {_apply_direction(origin,
                                                                     d.move_direction)} :
                                    \A target \in {_apply_direction(destination,
                                                                    d.build_direction)} :
                                        /\ d.build_direction \in (0 .. 8) \ {NO_BUILD}
                                        /\ target \in Cells
                                        /\ levels[target] < 4
                                        /\ workers[target] = 0 \/ target = origin
                                        /\ workers[target] \in
                                               {0, worker_ids(p)[d.worker + 1]}
                                        /\ target # destination

\* the cells a build from the destination of action a can name
BuildNeighbours(a, p) ==
    {_apply_direction(Destination(workers, a, p), b) : b \in (0 .. 8) \ {NO_BUILD}}

\* after a move, the player to move has a set action that builds on the cell its
\* worker leaves, and one whose destination is next to a dome and to the edge
C21_Witness ==
    /\ op = "make_move"
    /\ err = "none"
    /\ \A mask \in {Mask(player)} :
        /\ \E a \in Actions :
            /\ mask[a]
            /\ BuildTarget(workers, a, player) = Origin(workers, a, player)
        /\ \E a \in Actions :
            /\ mask[a]
            /\ \E c \in BuildNeighbours(a, player) \cap Cells : levels[c] = 4
            /\ \E c \in BuildNeighbours(a, player) : c \notin Cells

\* C22: get_symmetries leaves the board (workers, levels and the auxiliary
\* slots) and the policy and mask arrays given to it as they were at its entry,
\* on boards of four workers and of fewer.
C22_SymmetriesLeaveInputs ==
    [][op' = "get_symmetries"
       => /\ workers' = workers
          /\ levels' = levels
          /\ gods_power' = gods_power
          /\ _move_count' = _move_count
          /\ policy' = symmetries'[1][2]
          /\ valid_actions' = symmetries'[1][3]
          /\ valid_actions' = valid_moves(INIT_METHOD, workers, levels, 0)]_vars

\* get_symmetries has run on a board that lost a worker: the swap of the workers
\* of player 1 wrote on (4, 4) and the board reads as before
C22_Witness ==
    /\ op = "get_symmetries"
    /\ AbsSum(workers) < 6
    /\ Len(symmetries) = 8
    /\ symmetries[8][1].workers # workers
    /\ symmetries[1][1].workers = workers
    /\ symmetries[2][2] # policy

\* the sum of the heights of all cells
SumOfLevels(l) == SumUpTo(l, N * N - 1)

\* C23: each make_move with an action of valid_moves raises the sum of the
\* heights by 1; the sum, which is the number of plies since the board of
\* heights 0, is never above 100; and every sequence of legal moves that goes on
\* while a legal move exists reaches a state where check_end_game is not (0, 0).
C23_GamesEnd ==
    /\ [][op' = "make_move" => SumOfLevels(levels') = SumOfLevels(levels) + 1]_vars
    /\ [](SumOfLevels(levels) <= 100 /\ _move_count = SumOfLevels(levels))
    /\ <>(EndGame(player) # <<0, 0>>)

\* a sequence of legal moves has come to its end with nobody on level 3: the
\* player to move has no action left
C23_Witness ==
    /\ op = "make_move"
    /\ calls >= 4
    /\ Empty(player)
    /\ ~OnThree(0)
    /\ ~OnThree(1)
    /\ EndGame(player) = Loss(player)

\* a pair of scores with its two entries exchanged
Exchanged(pair) == <<pair[2], pair[1]>>

\* what swap_players(1) does to valid_moves and check_end_game in one step
SwapKeepsPerspective ==
    /\ \A p \in {0, 1} :
          valid_moves(INIT_METHOD, workers', levels', 1 - p)
              = valid_moves(INIT_METHOD, workers, levels, p)
    /\ \A next_player \in {0, 1} :
          check_end_game(INIT_METHOD, workers', levels', 1 - next_player)
              = Exchanged(check_end_game(INIT_METHOD, workers, levels, next_player))

RECURSIVE Undos(_, _)
Undos(s, k) == IF k = 0 THEN s ELSE Undos(revert_last_move(s), k - 1)

\* k times redo_next_move
RECURSIVE Redos(_, _)
Redos(s, k) == IF k = 0 THEN s ELSE Redos(redo_next_move(s), k - 1)

\* C25: from a session with a history that is not empty, revert_last_move and
\* then redo_next_move give back the board, the player, history and
\* future_history; k undos and then k redos replay the k moves in their order.
C25_UndoRedoRoundTrip ==
    \A k \in 1 .. Len(history) :
        /\ Redos(Undos(Session, k), k) = Session
        /\ \A j \in 1 .. k :
              Redos(Undos(Session, k), j).history[1].action = history[k + 1 - j].action

\* applying an entry's action to its board for its player
Replayed(entry) ==
    LET r == Game_getNextState(entry.board, entry.player, entry.action)
    IN  <<get_state(r), r.ret>>

\* C26: getNextState empties future_history and puts one entry in front of
\* history, with the player, the board and the action as they were before the
\* move; the older entries keep their order and content.
C26_NewMoveDropsRedo ==
    [][op' = "getNextState"
       => /\ future_history' = << >>
          /\ Len(history') = Len(history) + 1
          /\ history'[1] = [player |-> player, board |-> board, action |-> move']
          /\ \A i \in 1 .. Len(history) : history'[i + 1] = history[i]
          /\ <<board', player'>> = Replayed(history'[1])]_vars

\* a move was played after a jump back: its entry stands in front of an entry
\* of the same player
C26_Witness ==
    /\ op = "getNextState"
    /\ future_history = << >>
    /\ Len(history) >= 2
    /\ history[1].player = history[2].player

\* C27: history is a chain that leads to the current position: the action of
\* history[0] on its board for its player gives the session's board and player,
\* and the action of each entry gives the board and player of the next newer one.
C27_HistoryIsChain ==
    /\ Len(history) > 0 => Replayed(history[1]) = <<board, player>>
    /\ \A i \in 1 .. Len(history) - 1 :
          Replayed(history[i + 1]) = <<history[i].board, history[i].player>>

\* the newest entry of player p in history, and the oldest of the run it is in
NewestOf(p) == CHOOSE i \in 1 .. Len(history) :
                  /\ history[i].player = p
                  /\ \A j \in 1 .. i - 1 : history[j].player # p

RunEndOf(p) == CHOOSE k \in NewestOf(p) .. Len(history) :
                  /\ \A m \in NewestOf(p) .. k : history[m].player = p
                  /\ (k = Len(history) \/ history[k + 1].player # p)

\* C28: revert_to_previous_move(p) with an entry of p in history leaves p to
\* move on the board of the oldest entry of the newest run of p's entries, with
\* the undone entries in front of future_history, the oldest first, and the sum
\* of the two lengths as it was; with no entry of p nothing changes.
C28_RevertToPlayersTurn ==
    [][(op' = "revert_to_previous_move" /\ move' \in {0, 1})
       => IF \E i \in 1 .. Len(history) : history[i].player = move'
          THEN \A k \in {RunEndOf(move')} :
                  /\ player' = move'
                  /\ board' = history[k].board
                  /\ history' = SubSeq(history, k + 1, Len(history))
                  /\ future_history'
                       = [i \in 1 .. k |-> history[k + 1 - i]] \o future_history
                  /\ Len(history') + Len(future_history')
                       = Len(history) + Len(future_history)
          ELSE UNCHANGED <<player, board, history, future_history>>]_vars

\* revert_to_previous_move has undone two moves and more for the player who
\* is now to move
C28_Witness ==
    /\ op = "revert_to_previous_move"
    /\ move = player
    /\ Len(future_history) >= 2
    /\ future_history[1].player = player
    /\ future_history[2].player # player
    /\ Len(history) >= 1

\* a call of list_current_moves_with_adv has completed, by its return or by an
\* exception, and mcts.args.numMCTSSims is the count that was configured
RestoredOnCompletion ==
    op' \in {"list_current_moves_with_adv", "raised"}
        => mcts'.numMCTSSims = mcts'.configured

\* the search guessBestAction or calculate_eval_for_current_position calls
\* takes the count that was configured
OthersSearchConfigured ==
    (op' = "await" /\ tasks'[mover'].coro
                        \in {"guessBestAction", "calculate_eval_for_current_position"})
        => mcts'.nb_MCTS_sims[mover'] = mcts.configured

\* C29: the numMCTSSims given to list_current_moves_with_adv is used for that
\* call only: when the call completes, by its return or by an exception,
\* mcts.args.numMCTSSims is the value last set by init_game or changeDifficulty,
\* and a search of guessBestAction or calculate_eval_for_current_position never
\* runs with another count, however the coroutines interleave at their awaits.
C29_OverrideIsTemporary ==
    [][RestoredOnCompletion /\ OthersSearchConfigured]_vars

C29_RestoredOnCompletion == [][RestoredOnCompletion]_vars

C29_OthersSearchConfigured == [][OthersSearchConfigured]_vars

====
